---- MODULE Spec2Model ----
(***************************************************************************)
(* A model of src/main.py (Linux App Manager): the icon extractor worker,  *)
(* the application install worker, the desktop-entry catalog (list, read,  *)
(* launch, uninstall) and the GUI's handling of its worker threads.        *)
(*                                                                         *)
(* Text is modelled as sequences of one-character strings, so that         *)
(* lower(), strip(), split(), startswith() and endswith() are computed     *)
(* character by character as Python computes them.                         *)
(***************************************************************************)
EXTENDS Naturals, Sequences, FiniteSets, TLC

VARIABLES
    ixPath,      \* IconExtractorThread.file_path
    ixOut,       \* what one run of IconExtractorThread.run did and emitted
    rdLines,     \* the text lines of the desktop file show_app_details parses
    rdOut,       \* the details mapping show_app_details built
    lnLines,     \* the text lines of the desktop file launch_selected_app reads
    lnOut,       \* what launch_selected_app spawned and reported
    files,       \* the filesystem: path |-> content, regular files only
    pending,     \* the install worker's signal the GUI thread has not handled yet
    listed,      \* installed_apps_list: items [text, path]
    last,        \* the last operation on the filesystem and what it did
    form,        \* the install form's widgets
    resolvers,   \* IconExtractorThread objects whose run() has not returned
    installers,  \* AppInstallThread objects whose run() has not returned
    crashed      \* the process was aborted by Qt

iconVars   == <<ixPath, ixOut>>
readVars   == <<rdLines, rdOut>>
launchVars == <<lnLines, lnOut>>
fsVars     == <<files, pending, listed, last>>
guiVars    == <<form, resolvers, installers, crashed>>
vars       == <<ixPath, ixOut, rdLines, rdOut, lnLines, lnOut,
                files, pending, listed, last, form, resolvers, installers, crashed>>

---------------------------------------------------------------------------
(* Text: Python str operations on sequences of characters.                 *)

Whitespace == {" ", "\t", "\n"}

\* str.lower(), for the letters the model's texts use
LowerChar(c) ==
    CASE c = "A" -> "a" [] c = "C" -> "c" [] c = "G" -> "g" [] c = "I" -> "i"
      [] c = "M" -> "m" [] c = "N" -> "n" [] c = "P" -> "p" [] c = "S" -> "s"
      [] c = "T" -> "t" [] c = "V" -> "v" [] c = "X" -> "x"
      [] OTHER -> c

Lower(s) == [i \in 1..Len(s) |-> LowerChar(s[i])]

StartsWith(s, pre) ==
    /\ Len(pre) <= Len(s)
    /\ SubSeq(s, 1, Len(pre)) = pre

EndsWith(s, suf) ==
    /\ Len(suf) <= Len(s)
    /\ SubSeq(s, Len(s) - Len(suf) + 1, Len(s)) = suf

\* c in s
Contains(s, c) == \E i \in 1..Len(s) : s[i] = c

\* str.replace(a, b) for single characters
ReplaceChar(s, a, b) == [i \in 1..Len(s) |-> IF s[i] = a THEN b ELSE s[i]]

\* str.find(c) + 1: the position of the first c in s, 0 when there is none
RECURSIVE FindFrom(_, _, _)
FindFrom(s, c, i) ==
    IF i > Len(s) THEN 0
    ELSE IF s[i] = c THEN i
    ELSE FindFrom(s, c, i + 1)

FirstIndex(s, c) == FindFrom(s, c, 1)

\* str.rfind(c) + 1
RECURSIVE RFindFrom(_, _, _)
RFindFrom(s, c, i) ==
    IF i < 1 THEN 0
    ELSE IF s[i] = c THEN i
    ELSE RFindFrom(s, c, i - 1)

LastIndex(s, c) == RFindFrom(s, c, Len(s))

\* str.lstrip(), str.rstrip(), str.strip()
RECURSIVE LStrip(_)
LStrip(s) ==
    IF s # <<>> /\ Head(s) \in Whitespace THEN LStrip(Tail(s)) ELSE s

RECURSIVE RStrip(_)
RStrip(s) ==
    IF s # <<>> /\ s[Len(s)] \in Whitespace
    THEN RStrip(SubSeq(s, 1, Len(s) - 1))
    ELSE s

Strip(s) == RStrip(LStrip(s))

\* s.split(c, 1)[0] and s.split(c, 1)[1], for s that contains c
BeforeFirst(s, c) == SubSeq(s, 1, FirstIndex(s, c) - 1)
AfterFirst(s, c)  == SubSeq(s, FirstIndex(s, c) + 1, Len(s))

\* the longest prefix of s without whitespace
RECURSIVE TakeWord(_)
TakeWord(s) ==
    IF s = <<>> \/ Head(s) \in Whitespace THEN <<>>
    ELSE <<Head(s)>> \o TakeWord(Tail(s))

\* s.split(): TRUE when it returns an empty list
NoToken(s) == LStrip(s) = <<>>

\* s.split()[0], for s with a token
FirstToken(s) == TakeWord(LStrip(s))

\* s.split('.')[0]
BeforeFirstDot(s) ==
    IF Contains(s, ".") THEN BeforeFirst(s, ".") ELSE s

\* os.path.basename
Basename(p) == SubSeq(p, LastIndex(p, "/") + 1, Len(p))

\* the number of leading dots of a file name
RECURSIVE LeadingDots(_)
LeadingDots(s) ==
    IF s # <<>> /\ Head(s) = "." THEN 1 + LeadingDots(Tail(s)) ELSE 0

\* os.path.splitext(name)[0], for a name without directory part: the text
\* before the last dot, unless that dot is one of the name's leading dots
SplitextRoot(name) ==
    LET d == LastIndex(name, ".")
    IN  IF d > LeadingDots(name) THEN SubSeq(name, 1, d - 1) ELSE name

\* os.path.join(dir, name): an absolute name replaces dir
PathJoin(dir, name) ==
    IF name # <<>> /\ Head(name) = "/" THEN name
    ELSE IF dir = <<>> \/ dir[Len(dir)] = "/" THEN dir \o name
    ELSE dir \o <<"/">> \o name

\* '\n'.join(lines)
RECURSIVE JoinLines(_)
JoinLines(ls) ==
    IF ls = <<>> THEN <<>>
    ELSE IF Len(ls) = 1 THEN ls[1]
    ELSE ls[1] \o <<"\n">> \o JoinLines(Tail(ls))

\* for line in f: the lines of a text, each with its terminator
RECURSIVE FileLines(_)
FileLines(text) ==
    IF text = <<>> THEN <<>>
    ELSE LET n == FirstIndex(text, "\n")
         IN  IF n = 0 THEN <<text>>
             ELSE <<SubSeq(text, 1, n)>> \o FileLines(SubSeq(text, n + 1, Len(text)))

\* the sequences over S of length at most n
SeqsUpTo(S, n) == UNION {[1..k -> S] : k \in 0..n}

\* the sequences over S of length at most n without a repeated element
DistinctSeqsUpTo(S, n) ==
    {s \in SeqsUpTo(S, n) : \A i, j \in 1..Len(s) : i # j => s[i] # s[j]}

---------------------------------------------------------------------------
(* IconExtractorThread: the icon resolver worker.                          *)

sAppImageExt == <<".", "a", "p", "p", "i", "m", "a", "g", "e">>
sPngExt      == <<".", "p", "n", "g">>
sSvgExt      == <<".", "s", "v", "g">>
sXpmExt      == <<".", "x", "p", "m">>

\* the paths handed to the worker (extract_icon never passes an empty one)
IconInputs ==
    { <<"/", "d", "/", "t", ".", "A", "p", "p", "I", "m", "a", "g", "e">>,
      <<"/", "d", "/", "t", ".", "a", "p", "p", "i", "m", "a", "g", "e">>,
      <<"/", "d", "/", "t", ".", "b", "i", "n">>,
      <<"/", "d", "/", "t", "a", "p", "p", "i", "m", "a", "g", "e">>,
      <<"/", "d", "/", "t", ".", "a", "p", "p", "i", "m", "a", "g", "e", ".", "b", "a", "k">> }

\* file names found in an extracted bundle, and its sub-directory names
IconFileNames ==
    { <<"a", ".", "p", "n", "g">>, <<"b", ".", "S", "V", "G">>, <<"n", ".", "t", "x", "t">> }

SubDirNames == { <<"s">>, <<"t">> }

MaxFiles == 2      \* files listed in one directory
MaxSubs  == 1      \* sub-directories listed in one directory

\* one directory listing, in the order os.listdir returns it
Listings == DistinctSeqsUpTo(IconFileNames, MaxFiles)

SubDirs == [name : SubDirNames, files : Listings]

SubListings ==
    {s \in SeqsUpTo(SubDirs, MaxSubs) :
        \A i, j \in 1..Len(s) : i # j => s[i].name # s[j].name}

\* what a candidate location is on disk: nothing, a regular file, a directory
Absent  == [kind |-> "absent", files |-> <<>>, subs |-> <<>>]
RegFile == [kind |-> "file",   files |-> <<>>, subs |-> <<>>]
DirNodes     == {[kind |-> "dir", files |-> f, subs |-> s] : f \in Listings, s \in SubListings}
FlatDirNodes == {[kind |-> "dir", files |-> f, subs |-> <<>>] :
                    f \in { <<>>, <<<<"n", ".", "t", "x", "t">>>>, <<<<"c", ".", "x", "p", "m">>>>,
                            <<<<"n", ".", "t", "x", "t">>, <<"a", ".", "p", "n", "g">>>>,
                            <<<<"c", ".", "x", "p", "m">>, <<"a", ".", "p", "n", "g">>>> }}

\* the content of squashfs-root after a successful extraction
Trees ==
    [dirIcon : {Absent, RegFile},
     icons   : {Absent, RegFile} \cup DirNodes,
     pixmaps : {Absent} \cup FlatDirNodes]

NoTree == [dirIcon |-> Absent, icons |-> Absent, pixmaps |-> Absent]
NoPath == <<>>

\* how the external calls of one run end
IconFails == {"none", "nonzero", "oserror", "copy"}

\* paths inside the scratch directory, as sequences of components
pDirIcon == << <<".", "D", "i", "r", "I", "c", "o", "n">> >>
pIcons   == << <<"u", "s", "r">>, <<"s", "h", "a", "r", "e">>, <<"i", "c", "o", "n", "s">> >>
pPixmaps == << <<"u", "s", "r">>, <<"s", "h", "a", "r", "e">>, <<"p", "i", "x", "m", "a", "p", "s">> >>
pSaved   == << <<"e", "x", "t", "r", "a", "c", "t", "e", "d", "_", "i", "c", "o", "n", ".", "p", "n", "g">> >>

\* file_path.lower().endswith('.appimage')
IsAppImagePath_NoDot(path) == EndsWith(Lower(path), Tail(sAppImageExt))
IsAppImagePath(path) == EndsWith(Lower(path), sAppImageExt)

\* file.lower().endswith(('.png', '.svg', '.xpm'))
IsImageName(name) ==
    \/ EndsWith(Lower(name), sPngExt)
    \/ EndsWith(Lower(name), sSvgExt)
    \/ EndsWith(Lower(name), sXpmExt)

\* possible_locations
PossibleLocations(tree) ==
    << [path |-> pDirIcon, node |-> tree.dirIcon],
       [path |-> pIcons,   node |-> tree.icons],
       [path |-> pPixmaps, node |-> tree.pixmaps] >>

\* os.walk(loc), top down: the directory itself, then each sub-directory in
\* listing order
Walk(path, node) ==
    << [root |-> path, files |-> node.files] >>
    \o [i \in 1..Len(node.subs) |->
           [root |-> path \o <<node.subs[i].name>>, files |-> node.subs[i].files]]

\* a scan that prefers .png to .svg to .xpm within one directory
FirstImageInFiles_ByExtension(root, fs, i) ==
    LET has(ext) == {k \in 1..Len(fs) : EndsWith(Lower(fs[k]), ext)}
        min(S)   == CHOOSE k \in S : \A m \in S : k <= m
    IN  IF has(sPngExt) # {} THEN root \o <<fs[min(has(sPngExt))]>>
        ELSE IF has(sSvgExt) # {} THEN root \o <<fs[min(has(sSvgExt))]>>
        ELSE IF has(sXpmExt) # {} THEN root \o <<fs[min(has(sXpmExt))]>>
        ELSE NoPath

\* for file in files: the first file of the listing, from position i on, with
\* an image extension
RECURSIVE FirstImageInFiles(_, _, _)
FirstImageInFiles(root, fs, i) ==
    IF i > Len(fs) THEN NoPath
    ELSE IF IsImageName(fs[i]) THEN root \o <<fs[i]>>
    ELSE FirstImageInFiles(root, fs, i + 1)

\* for root, dirs, files in os.walk(loc): the first directory with a match
RECURSIVE FirstImageInWalk(_, _)
FirstImageInWalk(walk, j) ==
    IF j > Len(walk) THEN NoPath
    ELSE LET hit == FirstImageInFiles(walk[j].root, walk[j].files, 1)
         IN  IF hit # NoPath THEN hit ELSE FirstImageInWalk(walk, j + 1)

\* for loc in possible_locations, from location k on
RECURSIVE SearchFrom(_, _)
SearchFrom(locs, k) ==
    IF k > Len(locs) THEN NoPath
    ELSE IF locs[k].node.kind = "file" THEN locs[k].path
    ELSE IF locs[k].node.kind = "dir"
    THEN LET hit == FirstImageInWalk(Walk(locs[k].path, locs[k].node), 1)
         IN  IF hit # NoPath THEN hit ELSE SearchFrom(locs, k + 1)
    ELSE SearchFrom(locs, k + 1)

\* a search that looks into pixmaps before icons
SearchIcon_PixmapsFirst(tree) ==
    LET l == PossibleLocations(tree) IN SearchFrom(<<l[1], l[3], l[2]>>, 1)

SearchIcon(tree) == SearchFrom(PossibleLocations(tree), 1)

\* IconExtractorThread.run: the signals emitted, the processes spawned and
\* the file saved by one run
\* the run with the exit status of the extraction not checked
IconExtractorRun_Unchecked(path, tree, fail) ==
    LET base == [done |-> TRUE, tree |-> NoTree, fail |-> "none", progress |-> <<20>>,
                 finished |-> <<>>, errors |-> <<>>, spawned |-> 0,
                 searched |-> FALSE, pick |-> NoPath, saved |-> NoPath]
    IN  IF ~IsAppImagePath(path)
        THEN [base EXCEPT !.errors = <<"unsupported">>]
        ELSE IF fail = "oserror"
        THEN [base EXCEPT !.spawned = 1, !.fail = fail, !.errors = <<"exception">>]
        ELSE LET pick == SearchIcon(tree)
                 ran  == [base EXCEPT !.spawned = 1, !.tree = tree, !.searched = TRUE,
                                      !.fail = IF fail = "nonzero" THEN fail ELSE "none",
                                      !.pick = pick, !.progress = <<20, 50, 80>>]
             IN  IF pick = NoPath
                 THEN [ran EXCEPT !.errors = <<"notfound">>]
                 ELSE IF fail = "copy"
                 THEN [ran EXCEPT !.fail = fail, !.errors = <<"exception">>]
                 ELSE [ran EXCEPT !.saved = pick, !.progress = <<20, 50, 80, 100>>,
                                  !.finished = <<pSaved>>]

IconExtractorRun(path, tree, fail) ==
    LET base == [done |-> TRUE, tree |-> NoTree, fail |-> "none", progress |-> <<20>>,
                 finished |-> <<>>, errors |-> <<>>, spawned |-> 0,
                 searched |-> FALSE, pick |-> NoPath, saved |-> NoPath]
    IN  IF ~IsAppImagePath(path)
        THEN [base EXCEPT !.errors = <<"unsupported">>]
        ELSE IF fail \in {"nonzero", "oserror"}
        THEN [base EXCEPT !.spawned = 1, !.fail = fail, !.errors = <<"exception">>]
        ELSE LET pick == SearchIcon(tree)
                 ran  == [base EXCEPT !.spawned = 1, !.tree = tree, !.searched = TRUE,
                                      !.pick = pick, !.progress = <<20, 50, 80>>]
             IN  IF pick = NoPath
                 THEN [ran EXCEPT !.errors = <<"notfound">>]
                 ELSE IF fail = "copy"
                 THEN [ran EXCEPT !.fail = fail, !.errors = <<"exception">>]
                 ELSE [ran EXCEPT !.saved = pick, !.progress = <<20, 50, 80, 100>>,
                                  !.finished = <<pSaved>>]

IconIdleOut ==
    [done |-> FALSE, tree |-> NoTree, fail |-> "none", progress |-> <<>>,
     finished |-> <<>>, errors |-> <<>>, spawned |-> 0,
     searched |-> FALSE, pick |-> NoPath, saved |-> NoPath]

\* QThread.start(): run() executes once; the extraction, when it is reached
\* and succeeds, leaves any of the trees behind
IconRun ==
    /\ ~ixOut.done
    /\ \E fail \in IconFails :
         \E tree \in (IF IsAppImagePath(ixPath) /\ fail \in {"none", "copy"}
                      THEN Trees ELSE {NoTree}) :
             ixOut' = IconExtractorRun(ixPath, tree, fail)
    /\ UNCHANGED ixPath

\* the parts of the program a specification does not exercise stay idle
ReadIdleOut   == [done |-> FALSE, details |-> <<>>]
LaunchIdleOut == [done |-> FALSE, spawned |-> <<>>, report |-> "none", popen |-> "not_called"]
NoOp          == [op |-> "none"]

\* clear_form: the install form with no executable and no icon chosen
EmptyForm == [file_path |-> <<>>, icon_path |-> <<>>]

\* the worker is constructed with a path and has not run yet
InitIcon ==
    /\ ixPath \in IconInputs /\ ixOut = IconIdleOut
    /\ rdLines = <<>> /\ rdOut = ReadIdleOut
    /\ lnLines = <<>> /\ lnOut = LaunchIdleOut
    /\ files = <<>> /\ pending = "none" /\ listed = {} /\ last = NoOp
    /\ form = EmptyForm /\ resolvers = <<>> /\ installers = <<>> /\ crashed = FALSE

NextIcon == IconRun /\ UNCHANGED <<readVars, launchVars, fsVars, guiVars>>

SpecIcon == InitIcon /\ [][NextIcon]_vars

---------------------------------------------------------------------------
(* Claims about the icon resolver, checked under SpecIcon.                 *)

\* the image files of a directory node, whatever their depth
HasImage(node) ==
    /\ node.kind = "dir"
    /\ \/ \E i \in 1..Len(node.files) : IsImageName(node.files[i])
       \/ \E s \in 1..Len(node.subs) :
              \E i \in 1..Len(node.subs[s].files) : IsImageName(node.subs[s].files[i])

\* a location yields a match: it is a regular file, or a directory with an image
Matches(node) == node.kind = "file" \/ HasImage(node)

\* the rank of a file name's extension in the order PNG, SVG, XPM
ExtRank(name) ==
    IF EndsWith(Lower(name), sPngExt) THEN 1
    ELSE IF EndsWith(Lower(name), sSvgExt) THEN 2
    ELSE IF EndsWith(Lower(name), sXpmExt) THEN 3
    ELSE 4

\* the directories os.walk visits under the icons and the pixmaps location
SearchedWalks(tree) ==
    { Walk(pIcons, tree.icons), Walk(pPixmaps, tree.pixmaps) }

\* C5 as stated: between the image files of one directory of the icons or
\* pixmaps subtree the resolver picks by the extension priority PNG, SVG,
\* XPM, whatever the order of the directory listing.
C5_ExtensionPriority ==
    ixOut.searched =>
        \A w \in SearchedWalks(ixOut.tree) :
            \A j \in 1..Len(w) : \A i \in 1..Len(w[j].files) :
                ixOut.pick = w[j].root \o <<w[j].files[i]>> =>
                    \A k \in 1..Len(w[j].files) :
                        IsImageName(w[j].files[k]) =>
                            ExtRank(w[j].files[i]) <= ExtRank(w[j].files[k])

\* C5 amended: between the image files of one directory the resolver picks
\* the one the directory listing returns first, whatever their extensions;
\* across directories the file of the directory visited first wins.
C5_ListingOrder ==
    ixOut.searched =>
        \A w \in SearchedWalks(ixOut.tree) :
            \A j \in 1..Len(w) : \A i \in 1..Len(w[j].files) :
                ixOut.pick = w[j].root \o <<w[j].files[i]>> =>
                    /\ IsImageName(w[j].files[i])
                    /\ \A k \in 1..(i - 1) : ~IsImageName(w[j].files[k])
                    /\ \A d \in 1..(j - 1) :
                           \A k \in 1..Len(w[d].files) : ~IsImageName(w[d].files[k])

\* an SVG listed before a PNG of the same directory was picked and saved
C5_Witness ==
    /\ ixOut.finished = <<pSaved>>
    /\ ixOut.tree.icons.kind = "dir"
    /\ ixOut.tree.icons.files = << <<"b", ".", "S", "V", "G">>, <<"a", ".", "p", "n", "g">> >>
    /\ ixOut.saved = pIcons \o << <<"b", ".", "S", "V", "G">> >>

\* C6: after a successful extraction the resolver searches the direct icon
\* file, then the icons directory, then the pixmaps directory, and returns a
\* copy of the first match; with no match anywhere it reports NotFound.
C6_SearchOrder ==
    ixOut.searched =>
        LET t == ixOut.tree
            under(p) == /\ Len(ixOut.pick) >= Len(p)
                        /\ SubSeq(ixOut.pick, 1, Len(p)) = p
        IN  /\ t.dirIcon.kind = "file" => ixOut.pick = pDirIcon
            /\ (t.dirIcon.kind # "file" /\ Matches(t.icons)) => under(pIcons)
            /\ under(pPixmaps) =>
                   /\ t.dirIcon.kind # "file"
                   /\ ~Matches(t.icons)
                   /\ Matches(t.pixmaps)
            /\ (~Matches(t.dirIcon) /\ ~Matches(t.icons) /\ ~Matches(t.pixmaps)) =>
                   /\ ixOut.pick = NoPath
                   /\ ixOut.errors = <<"notfound">>
                   /\ ixOut.finished = <<>>
            /\ (ixOut.pick # NoPath /\ ixOut.fail = "none") =>
                   /\ ixOut.finished = <<pSaved>>
                   /\ ixOut.saved = ixOut.pick
                   /\ ixOut.errors = <<>>

\* a pixmaps file was returned: no direct icon, no image under icons
C6_Witness ==
    /\ ixOut.finished = <<pSaved>>
    /\ ixOut.tree.icons.kind = "dir"
    /\ ixOut.tree.icons.files # <<>>
    /\ ixOut.saved = pPixmaps \o << <<"c", ".", "x", "p", "m">> >>

\* the path does not end in '.appimage', compared without regard to case
NotBundlePath(path) ==
    LET n == Len(sAppImageExt)
    IN  \/ Len(path) < n
        \/ \E i \in 1..n : LowerChar(path[Len(path) - n + i]) # sAppImageExt[i]

---------------------------------------------------------------------------
(* show_app_details: reading a desktop file into the details mapping.      *)

sK == <<"k">>
sV == <<"v">>
sW == <<"w">>

\* text lines a desktop file may hold, without their terminators
ReadLineSet ==
    { <<"k", "=", "v">>,
      <<"k", "=", "w">>,
      <<"j", "=", "v">>,
      <<" ", "k", "=", "v", " ">>,
      <<"#", "k", "=", "v">>,
      <<" ", "#", "k", "=", "w">>,
      <<"k", "v">>,
      <<>>,
      <<"=", "v">>,
      <<"k", "=">>,
      <<"k", "=", "v", "=", "w">>,
      <<"k", " ", "=", "v">> }

MaxLines == 3      \* lines of a parsed file

NoDetails == <<>>

\* a mapping that keeps the value a key had before
Put_KeepFirst(d, key, value) ==
    [x \in DOMAIN d \cup {key} |-> IF x \in DOMAIN d THEN d[x] ELSE value]

\* details[key] = value
Put(d, key, value) ==
    [x \in DOMAIN d \cup {key} |-> IF x = key THEN value ELSE d[x]]

\* one pass of the loop body over a line of the file
ReadLine(d, raw) ==
    LET line == Strip(raw)
    IN  IF Contains(line, "=") /\ ~StartsWith(line, <<"#">>)
        THEN Put(d, BeforeFirst(line, "="), AfterFirst(line, "="))
        ELSE d

\* for line in f, from line i on
RECURSIVE ReadFrom(_, _, _)
ReadFrom(d, lines, i) ==
    IF i > Len(lines) THEN d
    ELSE ReadFrom(ReadLine(d, lines[i]), lines, i + 1)

\* the details mapping of a file
Read(lines) == ReadFrom(NoDetails, lines, 1)

\* a desktop file is selected in the list
InitRead ==
    /\ rdLines \in SeqsUpTo(ReadLineSet, MaxLines) /\ rdOut = ReadIdleOut
    /\ ixPath = <<>> /\ ixOut = IconIdleOut
    /\ lnLines = <<>> /\ lnOut = LaunchIdleOut
    /\ files = <<>> /\ pending = "none" /\ listed = {} /\ last = NoOp
    /\ form = EmptyForm /\ resolvers = <<>> /\ installers = <<>> /\ crashed = FALSE

\* show_app_details parses the selected file
ShowDetails ==
    /\ ~rdOut.done
    /\ rdOut' = [done |-> TRUE, details |-> Read(rdLines)]
    /\ UNCHANGED rdLines

NextRead == ShowDetails /\ UNCHANGED <<iconVars, launchVars, fsVars, guiVars>>

SpecRead == InitRead /\ [][NextRead]_vars

---------------------------------------------------------------------------
(* Claims about read(), checked under SpecRead.                            *)

\* the position of the first '=' of a line that has one
EqPos(l) == CHOOSE k \in 1..Len(l) : l[k] = "=" /\ \A m \in 1..(k - 1) : l[m] # "="

\* the mapping the claim describes, over lines L: a line that contains '='
\* and does not start with '#' gives the key before and the value after its
\* first '=', and the last such line of a key gives the key's value
DescribedBy(details, L) ==
    LET takes(i) == (\E k \in 1..Len(L[i]) : L[i][k] = "=") /\ L[i][1] # "#"
        key(i)   == SubSeq(L[i], 1, EqPos(L[i]) - 1)
        value(i) == SubSeq(L[i], EqPos(L[i]) + 1, Len(L[i]))
        taken    == {i \in 1..Len(L) : takes(i)}
    IN  /\ DOMAIN details = {key(i) : i \in taken}
        /\ \A i \in taken :
               (\A j \in taken : j > i => key(j) # key(i)) => details[key(i)] = value(i)

\* C8 as stated: the mapping is the one described by the lines as they stand
\* in the file.
C8_RawLines ==
    rdOut.done => DescribedBy(rdOut.details, rdLines)

\* C8 amended: read() never raises; each line is first stripped of leading
\* and trailing whitespace, and the mapping is the one described by the
\* stripped lines: an indented comment contributes nothing, and keys and
\* values lose the whitespace at the line's ends.
C8_StrippedLines ==
    rdOut.done =>
        DescribedBy(rdOut.details, [i \in 1..Len(rdLines) |-> Strip(rdLines[i])])

\* a key on two lines, an indented comment between them, the last value kept
C8_Witness ==
    /\ rdOut.done
    /\ rdLines = << <<"k", "=", "w">>, <<" ", "#", "k", "=", "w">>, <<" ", "k", "=", "v", " ">> >>
    /\ DOMAIN rdOut.details = {sK}
    /\ rdOut.details[sK] = sV

---------------------------------------------------------------------------
(* launch_selected_app: spawning the executable of a desktop file.         *)

sExecEq == <<"E", "x", "e", "c", "=">>
sExec   == <<"E", "x", "e", "c">>

\* lines of the desktop files that are launched, with their terminators
LaunchLineSet ==
    { <<"[", "D", "e", "s", "k", "t", "o", "p", " ", "E", "n", "t", "r", "y", "]", "\n">>,
      <<"N", "a", "m", "e", "=", "T", "\n">>,
      <<"E", "x", "e", "c", "=", "/", "b", "/", "t", "\n">>,
      <<"E", "x", "e", "c", "=", "/", "b", "/", "t", " ", "%", "U", "\n">>,
      <<"E", "x", "e", "c", "=", "/", "b", "/", "u", "\n">>,
      <<"E", "x", "e", "c", "=", "\n">>,
      <<"E", "x", "e", "c", "=", " ", " ", "\n">>,
      <<" ", "E", "x", "e", "c", "=", "/", "b", "/", "u", "\n">>,
      <<"#", "E", "x", "e", "c", "=", "/", "b", "/", "t", "\n">>,
      <<"E", "x", "e", "c", " ", "=", "/", "b", "/", "t", "\n">> }

\* the index of the first line that starts with "Exec=", 0 when there is none
RECURSIVE ExecLineFrom(_, _)
ExecLineFrom(lines, i) ==
    IF i > Len(lines) THEN 0
    ELSE IF StartsWith(lines[i], sExecEq) THEN i
    ELSE ExecLineFrom(lines, i + 1)

\* line.strip().split("=", 1)[1] of that line
ExecCommand(line) == AfterFirst(Strip(line), "=")

\* launch_selected_app on an existing desktop file: what is spawned, how the
\* call of subprocess.Popen ended and which message box is shown. An empty
\* exec_command makes split()[0] raise IndexError inside the try block.
LaunchRun(lines, spawnOk) ==
    LET i    == ExecLineFrom(lines, 1)
        base == [done |-> TRUE, spawned |-> <<>>, report |-> "none", popen |-> "not_called"]
    IN  IF i = 0 THEN [base EXCEPT !.report = "not_found"]
        ELSE IF NoToken(ExecCommand(lines[i])) THEN [base EXCEPT !.report = "failed"]
        ELSE IF spawnOk
        THEN [base EXCEPT !.popen = "ok", !.spawned = <<FirstToken(ExecCommand(lines[i]))>>]
        ELSE [base EXCEPT !.popen = "raised", !.report = "failed"]

\* a desktop file is selected in the list and exists
InitLaunch ==
    /\ lnLines \in SeqsUpTo(LaunchLineSet, MaxLines) /\ lnOut = LaunchIdleOut
    /\ ixPath = <<>> /\ ixOut = IconIdleOut
    /\ rdLines = <<>> /\ rdOut = ReadIdleOut
    /\ files = <<>> /\ pending = "none" /\ listed = {} /\ last = NoOp
    /\ form = EmptyForm /\ resolvers = <<>> /\ installers = <<>> /\ crashed = FALSE

\* the Launch button; subprocess.Popen succeeds or raises
LaunchSelectedApp ==
    /\ ~lnOut.done
    /\ \E spawnOk \in BOOLEAN : lnOut' = LaunchRun(lnLines, spawnOk)
    /\ UNCHANGED lnLines

NextLaunch == LaunchSelectedApp /\ UNCHANGED <<iconVars, readVars, fsVars, guiVars>>

SpecLaunch == InitLaunch /\ [][NextLaunch]_vars

---------------------------------------------------------------------------
(* Claims about launch(), checked under SpecLaunch.                        *)

\* the lines that start with the Exec key
ExecLines(lines) ==
    {i \in 1..Len(lines) :
        Len(lines[i]) >= 5 /\ \A k \in 1..5 : lines[i][k] = sExecEq[k]}

\* C9 as stated: launch spawns exactly the first token of the Exec value; an
\* entry without usable Exec value (no Exec key, or a value without token)
\* reports 'executable not found' and spawns nothing; a failing spawn reports
\* 'failed to launch'; the two reports are never confused.
C9_LaunchOutcomes ==
    lnOut.done =>
        LET E      == ExecLines(lnLines)
            first  == CHOOSE i \in E : \A j \in E : i <= j
            value  == SubSeq(lnLines[first], 6, Len(lnLines[first]))
            usable == E # {} /\ \E k \in 1..Len(value) : value[k] \notin Whitespace
        IN  /\ usable =>
                /\ lnOut.popen # "not_called"
                /\ lnOut.popen = "ok" =>
                       lnOut.report = "none" /\ lnOut.spawned = <<FirstToken(value)>>
                /\ lnOut.popen = "raised" =>
                       lnOut.report = "failed" /\ lnOut.spawned = <<>>
            /\ ~usable =>
                /\ lnOut.popen = "not_called"
                /\ lnOut.report = "not_found"
                /\ lnOut.spawned = <<>>

---------------------------------------------------------------------------
(* AppInstallThread: the install worker, on a filesystem of regular files. *)

HomeDir     == <<"/", "h">>
UserAppDir  == HomeDir \o <<"/", ".", "l", "o", "c", "a", "l", "/", "s", "h", "a", "r", "e", "/", "a", "p", "p", "l", "i", "c", "a", "t", "i", "o", "n", "s">>
UserBinDir  == HomeDir \o <<"/", ".", "l", "o", "c", "a", "l", "/", "b", "i", "n">>
UserIconDir == HomeDir \o <<"/", ".", "l", "o", "c", "a", "l", "/", "s", "h", "a", "r", "e", "/", "i", "c", "o", "n", "s", "/", "h", "i", "c", "o", "l", "o", "r", "/", "2", "5", "6", "x", "2", "5", "6", "/", "a", "p", "p", "s">>
SysAppDir   == <<"/", "u", "s", "r", "/", "s", "h", "a", "r", "e", "/", "a", "p", "p", "l", "i", "c", "a", "t", "i", "o", "n", "s">>
SysBinDir   == <<"/", "u", "s", "r", "/", "l", "o", "c", "a", "l", "/", "b", "i", "n">>
SysIconDir  == <<"/", "u", "s", "r", "/", "s", "h", "a", "r", "e", "/", "i", "c", "o", "n", "s", "/", "h", "i", "c", "o", "l", "o", "r", "/", "2", "5", "6", "x", "2", "5", "6", "/", "a", "p", "p", "s">>
TempDesktopFile == <<"/", "t", "m", "p", "/", "t", "m", "p", "f">>

sDesktopExt == <<".", "d", "e", "s", "k", "t", "o", "p">>
sUtility    == <<"U", "t", "i", "l", "i", "t", "y">>
sHeader     == <<"[", "D", "e", "s", "k", "t", "o", "p", " ", "E", "n", "t", "r", "y", "]">>
sNameEq     == <<"N", "a", "m", "e", "=">>
sTypeLine   == <<"T", "y", "p", "e", "=", "A", "p", "p", "l", "i", "c", "a", "t", "i", "o", "n">>
sCategoriesEq == <<"C", "a", "t", "e", "g", "o", "r", "i", "e", "s", "=">>
sIconEq     == <<"I", "c", "o", "n", "=">>
sKeywordsEq == <<"K", "e", "y", "w", "o", "r", "d", "s", "=">>
sCommentEq  == <<"C", "o", "m", "m", "e", "n", "t", "=">>

\* new_exe_name: the slug of the application name, with '.appimage' added
\* when the source name ends in '.appimage'; the source name without a name
NewExeName(app_name, exe_name) ==
    IF app_name # <<>>
    THEN LET slug == ReplaceChar(Lower(app_name), " ", "-")
         IN  IF ~EndsWith(slug, sAppImageExt) /\ EndsWith(exe_name, sAppImageExt)
             THEN slug \o sAppImageExt
             ELSE slug
    ELSE exe_name

\* icon_name
IconName(icon_path, new_exe_name) ==
    IF icon_path # <<>> THEN BeforeFirstDot(new_exe_name) \o sPngExt ELSE <<>>

\* desktop_file_content
DesktopFileContent(req, exe_name, dest_exe_path, icon_name) ==
    << sHeader,
       sNameEq \o (IF req.app_name # <<>> THEN req.app_name ELSE SplitextRoot(exe_name)),
       sExecEq \o dest_exe_path,
       sTypeLine,
       sCategoriesEq \o (IF req.category # <<>> THEN req.category ELSE sUtility) >>
    \o (IF icon_name # <<>> THEN <<sIconEq \o SplitextRoot(icon_name)>> ELSE <<>>)
    \o (IF req.keywords # <<>> THEN <<sKeywordsEq \o req.keywords>> ELSE <<>>)
    \o (IF req.description # <<>> THEN <<sCommentEq \o req.description>> ELSE <<>>)

\* the filesystem with content written to path
WriteFile(fs, path, content) ==
    [p \in DOMAIN fs \cup {path} |-> IF p = path THEN content ELSE fs[p]]

\* the filesystem without the file at path
RemoveFile(fs, path) == [p \in DOMAIN fs \ {path} |-> fs[p]]

\* the points where an external call of the install worker may raise
InstallFails ==
    {"none", "mkdirs", "copy_exe", "chmod", "copy_icon", "write_entry", "update_db"}

\* the value of a set with one element: S is evaluated once
TheOne(S) == CHOOSE v \in S : TRUE

\* the directories, names and paths the worker derives before it writes
InstallPlan(req, system_wide) ==
    LET app_dir  == IF system_wide THEN SysAppDir ELSE UserAppDir
        bin_dir  == IF system_wide THEN SysBinDir ELSE UserBinDir
        icon_dir == IF system_wide THEN SysIconDir ELSE UserIconDir
        exe_name == Basename(req.executable_path)
        new_exe_name  == NewExeName(req.app_name, exe_name)
        dest_exe_path == PathJoin(bin_dir, new_exe_name)
        icon_name     == IconName(req.icon_path, new_exe_name)
    IN  [system_wide |-> system_wide,
         src         |-> req.executable_path,
         icon_path   |-> req.icon_path,
         exeName     |-> new_exe_name,
         destExe     |-> dest_exe_path,
         destIcon    |-> IF icon_name = <<>> THEN <<>> ELSE PathJoin(icon_dir, icon_name),
         entryPath   |-> PathJoin(app_dir, BeforeFirstDot(new_exe_name) \o sDesktopExt),
         content     |-> JoinLines(DesktopFileContent(req, exe_name, dest_exe_path, icon_name))]

\* the steps of the worker in the order of the code
InstallSteps == <<"mkdirs", "copy_exe", "chmod", "copy_icon", "write_entry", "update_db">>

\* whether the worker executes step `name` for plan p
StepApplies(p, name) ==
    CASE name = "mkdirs"    -> ~p.system_wide
      [] name = "copy_icon" -> p.icon_path # <<>>
      [] name = "update_db" -> p.system_wide
      [] OTHER              -> TRUE

\* whether the external call of step `name` raises on filesystem fs
StepRaises(p, name, fail, fs) ==
    \/ fail = name
    \/ name = "copy_exe"  /\ (p.src \notin DOMAIN fs \/ p.src = p.destExe)
    \/ name = "copy_icon" /\ (p.icon_path \notin DOMAIN fs \/ p.icon_path = p.destIcon)

\* the files a step has written when its external call raises: under system
\* scope the entry is first written to a temporary file
StepLeaves(p, name, fs) ==
    IF name = "write_entry" /\ p.system_wide
    THEN WriteFile(fs, TempDesktopFile, p.content)
    ELSE fs

\* the files after step `name` succeeded on filesystem fs
StepWrites(p, name, fs) ==
    CASE name = "copy_exe"    -> WriteFile(fs, p.destExe, fs[p.src])
      [] name = "copy_icon"   -> WriteFile(fs, p.destIcon, fs[p.icon_path])
      [] name = "write_entry" -> WriteFile(fs, p.entryPath, p.content)
      [] OTHER                -> fs

\* the pkexec requests a step makes
StepElevations(p, name) ==
    IF p.system_wide /\ name \in {"copy_exe", "chmod", "copy_icon", "write_entry", "update_db"}
    THEN 1 ELSE 0

\* the progress values with the first two milestones exchanged
StepProgress_Exchanged(name) ==
    CASE name = "mkdirs"      -> <<50>>
      [] name = "chmod"       -> <<20>>
      [] OTHER                -> <<>>

\* the progress value emitted once step `name` is done
StepProgress(name) ==
    CASE name = "mkdirs"      -> <<20>>
      [] name = "chmod"       -> <<50>>
      [] OTHER                -> <<>>

\* one step of the worker on run state s
InstallStep(p, name, fail, s) ==
    IF ~StepApplies(p, name)
    THEN [s EXCEPT !.progress = @ \o StepProgress(name)]
    ELSE IF StepRaises(p, name, fail, s.files)
    THEN [s EXCEPT !.failed = TRUE, !.failedAt = name,
                   !.files = StepLeaves(p, name, @),
                   !.elevations = @ + StepElevations(p, name)]
    ELSE [s EXCEPT !.files = StepWrites(p, name, @),
                   !.steps = Append(@, name),
                   !.elevations = @ + StepElevations(p, name),
                   !.progress = @ \o StepProgress(name)]

\* the steps from the k-th on, an exception not ending the run
RECURSIVE InstallFrom_KeepGoing(_, _, _, _)
InstallFrom_KeepGoing(p, fail, s, k) ==
    IF k > Len(InstallSteps) THEN s
    ELSE TheOne({InstallFrom_KeepGoing(p, fail, n, k + 1) :
                    n \in {InstallStep(p, InstallSteps[k], fail, s)}})

\* the steps from the k-th on; an exception ends the run
RECURSIVE InstallFrom(_, _, _, _)
InstallFrom(p, fail, s, k) ==
    IF k > Len(InstallSteps) \/ s.failed THEN s
    ELSE TheOne({InstallFrom(p, fail, n, k + 1) :
                    n \in {InstallStep(p, InstallSteps[k], fail, s)}})

\* AppInstallThread.run: the files after the run, the steps that completed,
\* the pkexec requests made and the signals emitted
InstallRun(fs, req, system_wide, fail) ==
    LET s0 == [files |-> fs, steps |-> <<>>, failed |-> FALSE, failedAt |-> "none",
               elevations |-> 0, progress |-> <<>>]
        done(p, s) ==
            [files      |-> s.files,
             steps      |-> s.steps,
             failedAt   |-> s.failedAt,
             elevations |-> s.elevations,
             progress   |-> IF s.failed THEN s.progress ELSE s.progress \o <<100>>,
             finished   |-> IF s.failed THEN 0 ELSE 1,
             errors     |-> IF s.failed THEN 1 ELSE 0,
             exeName    |-> p.exeName,
             destExe    |-> p.destExe,
             destIcon   |-> p.destIcon,
             entryPath  |-> p.entryPath]
    IN  TheOne({ TheOne({done(p, s) : s \in {InstallFrom(p, fail, s0, 1)}}) :
                    p \in {InstallPlan(req, system_wide)} })

\* os.path.dirname
Dirname(p) == SubSeq(p, 1, LastIndex(p, "/") - 1)

\* desktop_file.startswith("/usr")
IsSystemApp(path) == StartsWith(path, <<"/", "u", "s", "r">>)

\* refresh_installed_apps: one item per .desktop file directly in the user or
\* the system applications directory, its text the file name and its data the
\* full path (the order of the listing is not modelled)
ListApps(fs) ==
    {[text |-> Basename(p), path |-> p] :
        p \in {q \in DOMAIN fs : /\ Dirname(q) \in {UserAppDir, SysAppDir}
                                 /\ EndsWith(Basename(q), sDesktopExt)}}

\* uninstall_app with the list item of text `text` selected and the question
\* answered Yes: the desktop file is looked up in the user applications
\* directory under the item's text
RemoveResult(fs, text) ==
    LET desktop_file_path == PathJoin(UserAppDir, text)
    IN  IF desktop_file_path \notin DOMAIN fs
        THEN [files |-> fs, report |-> "error"]
        ELSE LET lines == FileLines(fs[desktop_file_path])
                 i     == ExecLineFrom(lines, 1)
             IN  IF i # 0 /\ NoToken(ExecCommand(lines[i]))
                 THEN [files |-> fs, report |-> "error"]
                 ELSE LET exec_path == IF i = 0 THEN <<>>
                                       ELSE FirstToken(ExecCommand(lines[i]))
                          fs1 == RemoveFile(fs, desktop_file_path)
                      IN  IF exec_path # <<>> /\ StartsWith(exec_path, UserBinDir)
                          THEN IF exec_path \in DOMAIN fs1
                               THEN [files |-> RemoveFile(fs1, exec_path),
                                     report |-> "success"]
                               ELSE [files |-> fs1, report |-> "error"]
                          ELSE [files |-> fs1, report |-> "success"]

\* contents of executables and images
bytesT    == <<"E", "L", "F", "-", "t">>
bytesTU   == <<"E", "L", "F", "-", "t", "u">>
bytesU    == <<"E", "L", "F", "-", "u">>
bytesCool == <<"E", "L", "F", "-", "c">>
bytesIcon == <<"P", "N", "G", "-", "i">>

srcT      == <<"/", "d", "/", "t", ".", "a", "p", "p", "i", "m", "a", "g", "e">>
srcTU     == <<"/", "d", "/", "t", " ", "u">>
srcCool   == <<"/", "d", "/", "m", "y", "-", "c", "o", "o", "l", "-", "a", "p", "p", ".", "A", "p", "p", "I", "m", "a", "g", "e">>
srcGone   == <<"/", "d", "/", "g", "o", "n", "e">>
srcIcon   == <<"/", "d", "/", "i", ".", "p", "n", "g">>

\* the files the user can choose in the file dialogs
SourceFiles ==
    (srcT :> bytesT) @@ (srcTU :> bytesTU) @@ (srcCool :> bytesCool) @@ (srcIcon :> bytesIcon)

\* a packaged application's entry in the system applications directory
PackagedEntry ==
    (SysAppDir \o <<"/", "t", ".", "d", "e", "s", "k", "t", "o", "p">>) :>
        <<"[", "D", "e", "s", "k", "t", "o", "p", " ", "E", "n", "t", "r", "y", "]", "\n", "N", "a", "m", "e", "=", "T", "\n", "E", "x", "e", "c", "=", "/", "u", "s", "r", "/", "b", "i", "n", "/", "t", "\n">>

\* a hand-written entry of the user, with the executable it starts
HandWrittenEntry ==
    ((UserAppDir \o <<"/", "u", ".", "d", "e", "s", "k", "t", "o", "p">>) :>
        (<<"[", "D", "e", "s", "k", "t", "o", "p", " ", "E", "n", "t", "r", "y", "]", "\n", "E", "x", "e", "c", "=">> \o UserBinDir \o <<"/", "u", " ", "%", "U", "\n", "N", "a", "m", "e", "=", "U", "\n">>))
    @@ ((UserBinDir \o <<"/", "u">>) :> bytesU)

\* an entry of the user whose executable lies in a directory next to the
\* user bin directory, its name beginning with the name of that directory
SiblingEntry ==
    ((UserAppDir \o <<"/", "v", ".", "d", "e", "s", "k", "t", "o", "p">>) :>
        (<<"[", "D", "e", "s", "k", "t", "o", "p", " ", "E", "n", "t", "r", "y", "]", "\n", "E", "x", "e", "c", "=">> \o UserBinDir \o <<"x", "/", "v", "\n", "N", "a", "m", "e", "=", "V", "\n">>))
    @@ ((UserBinDir \o <<"x", "/", "v">>) :> <<"E", "L", "F", "-", "v">>)

\* the filesystems the program may find when it starts
InitialFiles ==
    { SourceFiles,
      SourceFiles @@ HandWrittenEntry @@ SiblingEntry,
      SourceFiles @@ PackagedEntry,
      SourceFiles @@ HandWrittenEntry,
      SourceFiles @@ PackagedEntry @@ HandWrittenEntry }

\* the form contents the catalog is exercised with
CatalogRequests ==
    { [executable_path |-> srcT, app_name |-> <<"T">>, icon_path |-> <<>>,
       category |-> sUtility, keywords |-> <<>>, description |-> <<>>],
      [executable_path |-> srcTU, app_name |-> <<>>, icon_path |-> srcIcon,
       category |-> sUtility, keywords |-> <<>>, description |-> <<>>] }

CatalogFails == {"none", "write_entry"}

\* the form contents a single install is exercised with
InstallRequests ==
    [executable_path : {srcT, srcTU, srcCool, srcGone},
     app_name        : {<<>>, <<"T">>, <<"M", "y", " ", "C", "o", "o", "l", " ", "A", "p", "p">>},
     icon_path       : {<<>>, srcIcon},
     category        : {sUtility, <<"G", "a", "m", "e">>},
     keywords        : {<<>>, <<"a", ",", "b">>},
     description     : {<<>>, <<"d">>, <<"d", " ">>, <<"d", "\n", "X", "=", "1">>}]

\* install_app starts the worker, which runs to its end; its signal waits for
\* the GUI thread (the catalog follows one worker at a time)
InstallWorker(requests, fails) ==
    /\ pending = "none"
    /\ \E req \in requests, system_wide \in BOOLEAN, fail \in fails :
           LET r == InstallRun(files, req, system_wide, fail)
           IN  /\ files' = r.files
               /\ pending' = IF r.finished = 1 THEN "finished" ELSE "error"
               /\ last' = [op |-> "install", req |-> req, system_wide |-> system_wide,
                           fail |-> fail,
                           run |-> [f \in DOMAIN r \ {"files"} |-> r[f]]]
    /\ UNCHANGED listed

\* installation_complete: the form is cleared and the list refreshed
InstallationComplete ==
    /\ pending = "finished"
    /\ pending' = "none"
    /\ listed' = ListApps(files)
    /\ UNCHANGED <<files, last>>

\* show_error
ShowError ==
    /\ pending = "error"
    /\ pending' = "none"
    /\ UNCHANGED <<files, listed, last>>

\* the Refresh button
RefreshInstalledApps ==
    /\ listed' = ListApps(files)
    /\ UNCHANGED <<files, pending, last>>

\* the Uninstall button with an item selected and the question answered Yes
UninstallApp ==
    /\ \E item \in listed :
           LET r == RemoveResult(files, item.text)
           IN  /\ files' = r.files
               /\ listed' = IF r.report = "success" THEN ListApps(r.files) ELSE listed
               /\ last' = [op |-> "uninstall", item |-> item,
                           existed |-> item.path \in DOMAIN files,
                           entry |-> IF item.path \in DOMAIN files
                                     THEN files[item.path] ELSE <<>>,
                           report |-> r.report,
                           removed |-> DOMAIN files \ DOMAIN r.files]
    /\ UNCHANGED pending

\* a click on a list item whose file exists: show_app_details reads it
ShowDetailsOfItem ==
    /\ ~rdOut.done
    /\ \E item \in listed :
           /\ item.path \in DOMAIN files
           /\ rdLines' = FileLines(files[item.path])
           /\ rdOut' = [done |-> TRUE, details |-> Read(FileLines(files[item.path]))]

\* the window opens: init_ui fills the list
Init ==
    /\ files \in InitialFiles /\ listed = ListApps(files)
    /\ pending = "none" /\ last = NoOp
    /\ ixPath = <<>> /\ ixOut = IconIdleOut
    /\ rdLines = <<>> /\ rdOut = ReadIdleOut
    /\ lnLines = <<>> /\ lnOut = LaunchIdleOut
    /\ form = EmptyForm /\ resolvers = <<>> /\ installers = <<>> /\ crashed = FALSE

Next ==
    \/ InstallWorker(CatalogRequests, CatalogFails)
           /\ UNCHANGED <<iconVars, readVars, launchVars, guiVars>>
    \/ InstallationComplete /\ UNCHANGED <<iconVars, readVars, launchVars, guiVars>>
    \/ ShowError /\ UNCHANGED <<iconVars, readVars, launchVars, guiVars>>
    \/ RefreshInstalledApps /\ UNCHANGED <<iconVars, readVars, launchVars, guiVars>>
    \/ UninstallApp /\ UNCHANGED <<iconVars, readVars, launchVars, guiVars>>

Spec == Init /\ [][Next]_vars

\* one install into a filesystem that holds only the source files
InitInstall ==
    /\ files = SourceFiles /\ listed = ListApps(files)
    /\ pending = "none" /\ last = NoOp
    /\ ixPath = <<>> /\ ixOut = IconIdleOut
    /\ rdLines = <<>> /\ rdOut = ReadIdleOut
    /\ lnLines = <<>> /\ lnOut = LaunchIdleOut
    /\ form = EmptyForm /\ resolvers = <<>> /\ installers = <<>> /\ crashed = FALSE

NextInstall ==
    \/ last.op = "none" /\ InstallWorker(InstallRequests, InstallFails)
           /\ UNCHANGED <<iconVars, readVars, launchVars, guiVars>>
    \/ InstallationComplete /\ UNCHANGED <<iconVars, readVars, launchVars, guiVars>>
    \/ ShowError /\ UNCHANGED <<iconVars, readVars, launchVars, guiVars>>
    \/ ShowDetailsOfItem
           /\ UNCHANGED <<iconVars, launchVars, fsVars, guiVars>>

SpecInstall == InitInstall /\ [][NextInstall]_vars

---------------------------------------------------------------------------
(* Claims about the install worker and the catalog. *)

\* the key of a 'Key=' prefix
KeyOf(prefix) == SubSeq(prefix, 1, Len(prefix) - 1)

\* the keys read() must return for request req
ExpectedKeys(req) ==
    {KeyOf(sNameEq), sExec, <<"T", "y", "p", "e">>, KeyOf(sCategoriesEq)}
    \cup (IF req.icon_path # <<>> THEN {KeyOf(sIconEq)} ELSE {})
    \cup (IF req.keywords # <<>> THEN {KeyOf(sKeywordsEq)} ELSE {})
    \cup (IF req.description # <<>> THEN {KeyOf(sCommentEq)} ELSE {})

\* the entry file of the last install has been read
ReadBack ==
    /\ last.op = "install" /\ ~last.system_wide /\ last.run.finished = 1
    /\ rdOut.done
    /\ last.run.entryPath \in DOMAIN files
    /\ rdLines = FileLines(files[last.run.entryPath])

\* C1: after a User-scope install that succeeded, read() of the entry file it
\* wrote returns exactly the keys Name, Exec, Type, Categories, plus Icon,
\* Keywords and Comment iff the icon path, the keywords and the description
\* were non-empty; Name, Categories, Keywords and Comment equal the request
\* fields verbatim and Exec is the destination path in the user bin directory,
\* not the source path.
C1_RoundTrip ==
    ReadBack =>
        LET req == last.req
            d   == rdOut.details
        IN  /\ DOMAIN d = ExpectedKeys(req)
            /\ req.app_name # <<>> => d[KeyOf(sNameEq)] = req.app_name
            /\ d[KeyOf(sCategoriesEq)] = req.category
            /\ req.keywords # <<>> => d[KeyOf(sKeywordsEq)] = req.keywords
            /\ req.description # <<>> => d[KeyOf(sCommentEq)] = req.description
            /\ d[sExec] = last.run.destExe
            /\ Dirname(d[sExec]) = UserBinDir
            /\ d[sExec] # req.executable_path

\* C2: remove of a listed entry acts on the file at the entry's own path: it
\* deletes that file or reports an error, and the remove of a System-scoped
\* entry deletes no file of the user.
C2_RemoveOwnPath ==
    last.op = "uninstall" =>
        /\ last.item.path \notin DOMAIN files \/ last.report = "error"
        /\ IsSystemApp(last.item.path) =>
               \A p \in last.removed : ~StartsWith(p, HomeDir)

\* the slug of an application name
Slug(app_name) == ReplaceChar(Lower(app_name), " ", "-")

\* C3: with an application name supplied and a source file name that ends in
\* '.appimage' in any letter case, the destination executable name is the slug
\* of the name followed by '.appimage'.
C3_BundleExtension ==
    ( /\ last.op = "install"
      /\ last.req.app_name # <<>>
      /\ EndsWith(Lower(Basename(last.req.executable_path)), sAppImageExt) )
    => last.run.exeName = Slug(last.req.app_name) \o sAppImageExt

\* the Exec value read() returns for the text of an entry file, <<>> without one
ExecValue(text) ==
    LET d == Read(FileLines(text))
    IN  IF sExec \in DOMAIN d THEN d[sExec] ELSE <<>>

\* C4: after remove of a User-scope entry whose Exec path lies under the user
\* bin directory, the entry file and the executable at the Exec path are
\* deleted and the listing does not include the entry.
C4_RemoveDeletesBoth ==
    ( /\ last.op = "uninstall"
      /\ ~IsSystemApp(last.item.path)
      /\ last.existed
      /\ StartsWith(ExecValue(last.entry), UserBinDir \o <<"/">>) )
    => /\ last.item.path \notin DOMAIN files
       /\ ExecValue(last.entry) \notin DOMAIN files
       /\ last.item \notin ListApps(files)

---------------------------------------------------------------------------
(* The window and its worker threads.  The window keeps one attribute per   *)
(* worker class (icon_extractor, install_thread); a worker is a record of   *)
(* the executable path it was started with and of whether the attribute     *)
(* still refers to it.  resolvers and installers list the workers whose     *)
(* run() has not returned, in the order they were started.                  *)

\* the most workers of one class that are followed at a time
MaxWorkers == 2

\* the executables the file dialog offers
GuiExecutables == {srcT, srcTU}

\* the path of the icon a resolver saves: a scratch directory of its own,
\* named here after the executable it was started for
SavedIconPath(path) ==
    <<"/", "t", "m", "p", "/">> \o Basename(path) \o <<"/">> \o pSaved[1]

\* self.<attribute> = <new thread>; start(): the workers started before lose
\* the window's reference and keep running
Started(workers, path) ==
    [i \in 1..Len(workers) |-> [workers[i] EXCEPT !.held = FALSE]]
        \o <<[path |-> path, held |-> TRUE]>>

\* the workers without the i-th
Without(workers, i) == SubSeq(workers, 1, i - 1) \o SubSeq(workers, i + 1, Len(workers))

\* browse_file with a file chosen
BrowseFile ==
    /\ ~crashed
    /\ \E p \in GuiExecutables : form' = [form EXCEPT !.file_path = p]
    /\ UNCHANGED <<resolvers, installers, crashed>>

\* browse_icon with a file chosen
BrowseIcon ==
    /\ ~crashed
    /\ form' = [form EXCEPT !.icon_path = srcIcon]
    /\ UNCHANGED <<resolvers, installers, crashed>>

\* the Clear button
ClearForm ==
    /\ ~crashed
    /\ form' = EmptyForm
    /\ UNCHANGED <<resolvers, installers, crashed>>

\* extract_icon: a resolver is started for the executable in the form
ExtractIcon ==
    /\ ~crashed
    /\ form.file_path # <<>>
    /\ Len(resolvers) < MaxWorkers
    /\ resolvers' = Started(resolvers, form.file_path)
    /\ UNCHANGED <<form, installers, crashed>>

\* install_app: an installer is started for the executable in the form
InstallApp ==
    /\ ~crashed
    /\ form.file_path # <<>>
    /\ Len(installers) < MaxWorkers
    /\ installers' = Started(installers, form.file_path)
    /\ UNCHANGED <<form, resolvers, crashed>>

\* a thread object the window no longer refers to is released when its run()
\* returns, while the thread is still running: the process may abort
Released(worker, rest_resolvers, rest_installers, new_form) ==
    \E abort \in (IF worker.held THEN {FALSE} ELSE BOOLEAN) :
        IF abort
        THEN /\ crashed' = TRUE
             /\ resolvers' = <<>> /\ installers' = <<>>
             /\ UNCHANGED form
        ELSE /\ crashed' = FALSE
             /\ resolvers' = rest_resolvers /\ installers' = rest_installers
             /\ form' = new_form

\* the run() of the i-th resolver returns: icon_extracted puts the saved icon
\* into the form, show_error leaves the form alone
IconExtractorDone ==
    /\ ~crashed
    /\ \E i \in 1..Len(resolvers) :
         \E signal \in (IF IsAppImagePath(resolvers[i].path)
                         THEN {"finished", "error"} ELSE {"error"}) :
             Released(resolvers[i], Without(resolvers, i), installers,
                      IF signal = "finished"
                      THEN [form EXCEPT !.icon_path = SavedIconPath(resolvers[i].path)]
                      ELSE form)

\* the run() of the i-th installer returns: installation_complete clears the
\* form, show_error leaves the form alone
InstallThreadDone ==
    /\ ~crashed
    /\ \E i \in 1..Len(installers) :
         \E signal \in {"finished", "error"} :
             Released(installers[i], resolvers, Without(installers, i),
                      IF signal = "finished" THEN EmptyForm ELSE form)

InitGui ==
    /\ form = EmptyForm /\ resolvers = <<>> /\ installers = <<>> /\ crashed = FALSE
    /\ ixPath = <<>> /\ ixOut = IconIdleOut
    /\ rdLines = <<>> /\ rdOut = ReadIdleOut
    /\ lnLines = <<>> /\ lnOut = LaunchIdleOut
    /\ files = <<>> /\ pending = "none" /\ listed = {} /\ last = NoOp

NextGui ==
    \/ BrowseFile /\ UNCHANGED <<iconVars, readVars, launchVars, fsVars>>
    \/ BrowseIcon /\ UNCHANGED <<iconVars, readVars, launchVars, fsVars>>
    \/ ClearForm /\ UNCHANGED <<iconVars, readVars, launchVars, fsVars>>
    \/ ExtractIcon /\ UNCHANGED <<iconVars, readVars, launchVars, fsVars>>
    \/ InstallApp /\ UNCHANGED <<iconVars, readVars, launchVars, fsVars>>
    \/ IconExtractorDone /\ UNCHANGED <<iconVars, readVars, launchVars, fsVars>>
    \/ InstallThreadDone /\ UNCHANGED <<iconVars, readVars, launchVars, fsVars>>

SpecGui == InitGui /\ [][NextGui]_vars

\* C10: under any sequence of user triggers at most one icon-resolver worker
\* and at most one installer worker is active at any moment.
C10_OneWorkerPerClass ==
    Len(resolvers) <= 1 /\ Len(installers) <= 1

\* the path uninstall_app takes from the text of an entry file: the first
\* token of the first line that starts with 'Exec=', <<>> without one
ExecToken(text) ==
    LET lines == FileLines(text)
        i     == ExecLineFrom(lines, 1)
    IN  IF i = 0 \/ NoToken(ExecCommand(lines[i])) THEN <<>>
        ELSE FirstToken(ExecCommand(lines[i]))

\* the path lies inside the user bin directory
InUserBin(path) == StartsWith(path, UserBinDir \o <<"/">>)

\* C11: remove deletes the file named by the Exec token if and only if that
\* path lies inside the user bin directory: besides the entry file it opened,
\* no file outside the user bin directory is deleted, and the Exec token of a
\* User-scope entry that lies inside the user bin directory is gone afterwards.
C11_OnlyInsideUserBin ==
    last.op = "uninstall" =>
        /\ \A p \in last.removed :
               p = PathJoin(UserAppDir, last.item.text) \/ InUserBin(p)
        /\ ( /\ ~IsSystemApp(last.item.path) /\ last.existed
             /\ InUserBin(ExecToken(last.entry)) )
           => ExecToken(last.entry) \notin DOMAIN files

---------------------------------------------------------------------------
(* Further claims about the icon resolver. *)

---------------------------------------------------------------------------
(* Further claims about the install worker. *)

\* the steps of an install in the stated order: the directories (User scope),
\* the executable, its mode, the icon (if supplied), the entry file, and the
\* entry database (System scope)
StatedOrder(req, system_wide) ==
    (IF system_wide THEN <<>> ELSE <<"mkdirs">>)
    \o <<"copy_exe", "chmod">>
    \o (IF req.icon_path # <<>> THEN <<"copy_icon">> ELSE <<>>)
    \o <<"write_entry">>
    \o (IF system_wide THEN <<"update_db">> ELSE <<>>)

\* C13: the steps that completed are the first steps of the stated order; a
\* run without failure completes all of them and reports success only; a run
\* that fails at a step completes no step after it and reports exactly one
\* error and no success; under System scope every step (the failed one too) is
\* one elevation request, under User scope there is none; the files of the
\* completed steps are on disk, and the entry file is on disk only if the
\* executable was copied.
C13_StepOrder ==
    last.op = "install" =>
        LET r     == last.run
            order == StatedOrder(last.req, last.system_wide)
            n     == Len(r.steps)
        IN  /\ n <= Len(order) /\ r.steps = SubSeq(order, 1, n)
            /\ IF r.failedAt = "none"
               THEN n = Len(order) /\ r.finished = 1 /\ r.errors = 0
               ELSE /\ n < Len(order) /\ r.failedAt = order[n + 1]
                    /\ r.finished = 0 /\ r.errors = 1
            /\ r.elevations = IF ~last.system_wide THEN 0
                              ELSE IF r.failedAt = "none" THEN n ELSE n + 1
            /\ (\E k \in 1..n : r.steps[k] = "copy_exe") =>
                   /\ r.destExe \in DOMAIN files
                   /\ files[r.destExe] = SourceFiles[last.req.executable_path]
            /\ (\E k \in 1..n : r.steps[k] = "copy_icon") => r.destIcon \in DOMAIN files
            /\ (\E k \in 1..n : r.steps[k] = "write_entry") => r.entryPath \in DOMAIN files
            /\ r.entryPath \in DOMAIN files => \E k \in 1..n : r.steps[k] = "copy_exe"

\* a System-scope install whose icon copy fails after the executable was
\* copied and marked
C13_Witness ==
    /\ last.op = "install" /\ last.system_wide
    /\ last.run.failedAt = "copy_icon"
    /\ last.run.steps = <<"copy_exe", "chmod">>
    /\ last.run.elevations = 3
    /\ last.run.errors = 1 /\ last.run.finished = 0
    /\ last.run.destExe \in DOMAIN files
    /\ last.run.entryPath \notin DOMAIN files

---------------------------------------------------------------------------
(* One entry file of the user, shown, launched and uninstalled. *)

\* lines of the entry file, without their terminators
EntryLineSet ==
    { <<"N", "a", "m", "e", "=", "T">>,
      sExecEq \o UserBinDir \o <<"/", "t">>,
      sExecEq \o UserBinDir \o <<"/", "u", " ", "%", "U">>,
      <<" ">> \o sExecEq \o UserBinDir \o <<"/", "u">>,
      <<"#">> \o sExecEq \o UserBinDir \o <<"/", "t">> }

\* the path of the entry file
EntryPath == UserAppDir \o <<"/", "e", ".", "d", "e", "s", "k", "t", "o", "p">>

\* the executables in the user bin directory
EntryExecutables ==
    ((UserBinDir \o <<"/", "t">>) :> bytesT) @@ ((UserBinDir \o <<"/", "u">>) :> bytesU)

\* launch_selected_app with a list item selected whose file exists
LaunchItem ==
    /\ ~lnOut.done
    /\ \E item \in listed :
           /\ item.path \in DOMAIN files
           /\ lnLines' = FileLines(files[item.path])
           /\ \E spawnOk \in BOOLEAN :
                  lnOut' = LaunchRun(FileLines(files[item.path]), spawnOk)

InitEntry ==
    /\ \E lines \in SeqsUpTo(EntryLineSet, MaxLines) :
           files = EntryExecutables @@ (EntryPath :> JoinLines(lines))
    /\ listed = ListApps(files)
    /\ pending = "none" /\ last = NoOp
    /\ ixPath = <<>> /\ ixOut = IconIdleOut
    /\ rdLines = <<>> /\ rdOut = ReadIdleOut
    /\ lnLines = <<>> /\ lnOut = LaunchIdleOut
    /\ form = EmptyForm /\ resolvers = <<>> /\ installers = <<>> /\ crashed = FALSE

NextEntry ==
    \/ ShowDetailsOfItem /\ UNCHANGED <<iconVars, launchVars, fsVars, guiVars>>
    \/ LaunchItem /\ UNCHANGED <<iconVars, readVars, fsVars, guiVars>>
    \/ UninstallApp /\ UNCHANGED <<iconVars, readVars, launchVars, guiVars>>

SpecEntry == InitEntry /\ [][NextEntry]_vars

\* the entry file was shown and launched and then uninstalled
ShownLaunchedRemoved ==
    /\ rdOut.done /\ lnOut.done
    /\ last.op = "uninstall" /\ last.existed
    /\ rdLines = FileLines(last.entry) /\ lnLines = rdLines

\* the first token of the Exec value in a details mapping, <<>> without one
ShownExecToken(details) ==
    IF sExec \notin DOMAIN details \/ NoToken(details[sExec]) THEN <<>>
    ELSE FirstToken(details[sExec])

\* C14: for an entry file, what launch spawns and what remove deletes besides
\* the entry file is the first token of the Exec value that read returns, and
\* launch finds no executable only if read returns no Exec value.
C14_SameExecutable ==
    ShownLaunchedRemoved =>
        /\ lnOut.popen = "ok" => lnOut.spawned = <<ShownExecToken(rdOut.details)>>
        /\ lnOut.report = "not_found" => sExec \notin DOMAIN rdOut.details
        /\ \A p \in last.removed :
               p # last.item.path => p = ShownExecToken(rdOut.details)

---------------------------------------------------------------------------
(* Further claims about the window and its workers. *)

\* C15: the icon path a resolver delivers is written into the form only if
\* the executable in the form is still the one the resolver was started for;
\* in particular no delivery writes an icon into a cleared form.
C15_IconOfSelectedExecutable ==
    [][ \A p \in GuiExecutables :
            (form'.icon_path = SavedIconPath(p) /\ form.icon_path # SavedIconPath(p))
                => form.file_path = p ]_vars

---------------------------------------------------------------------------
(* A sequence of installs that all succeed. *)

\* the form contents of the installs
RepeatRequests ==
    { [executable_path |-> srcT, app_name |-> <<"T">>, icon_path |-> srcIcon,
       category |-> sUtility, keywords |-> <<>>, description |-> <<>>],
      [executable_path |-> srcTU, app_name |-> <<"T">>, icon_path |-> <<>>,
       category |-> sUtility, keywords |-> <<>>, description |-> <<>>],
      [executable_path |-> srcTU, app_name |-> <<>>, icon_path |-> srcIcon,
       category |-> sUtility, keywords |-> <<>>, description |-> <<>>],
      [executable_path |-> srcCool, app_name |-> <<>>, icon_path |-> <<>>,
       category |-> sUtility, keywords |-> <<>>, description |-> <<>>] }

InitRepeat ==
    /\ files = SourceFiles /\ listed = ListApps(files)
    /\ pending = "none" /\ last = NoOp
    /\ ixPath = <<>> /\ ixOut = IconIdleOut
    /\ rdLines = <<>> /\ rdOut = ReadIdleOut
    /\ lnLines = <<>> /\ lnOut = LaunchIdleOut
    /\ form = EmptyForm /\ resolvers = <<>> /\ installers = <<>> /\ crashed = FALSE

NextRepeat ==
    \/ InstallWorker(RepeatRequests, {"none"})
           /\ UNCHANGED <<iconVars, readVars, launchVars, guiVars>>
    \/ InstallationComplete /\ UNCHANGED <<iconVars, readVars, launchVars, guiVars>>

SpecRepeat == InitRepeat /\ [][NextRepeat]_vars

\* the applications directory of the scope a bin directory belongs to
AppDirOf(bin_dir) == IF bin_dir = UserBinDir THEN UserAppDir ELSE SysAppDir

\* C16: after any sequence of successful installs every installed executable
\* is the Exec of some entry file of its scope: no install overwrites the
\* entry of an application with another destination executable name.
C16_EveryExecutableReferenced ==
    \A p \in DOMAIN files :
        Dirname(p) \in {UserBinDir, SysBinDir} =>
            \E q \in DOMAIN files :
                /\ Dirname(q) = AppDirOf(Dirname(p))
                /\ ExecValue(files[q]) = p

---------------------------------------------------------------------------
(* One run of a worker, of either class. *)

\* the form contents of the installer run
WorkerRequests ==
    RepeatRequests \cup
    { [executable_path |-> srcGone, app_name |-> <<>>, icon_path |-> <<>>,
       category |-> sUtility, keywords |-> <<>>, description |-> <<>>] }

InitWorkers ==
    /\ ixPath \in IconInputs /\ ixOut = IconIdleOut
    /\ files = SourceFiles /\ listed = ListApps(files)
    /\ pending = "none" /\ last = NoOp
    /\ rdLines = <<>> /\ rdOut = ReadIdleOut
    /\ lnLines = <<>> /\ lnOut = LaunchIdleOut
    /\ form = EmptyForm /\ resolvers = <<>> /\ installers = <<>> /\ crashed = FALSE

\* one run is followed per behaviour: of the resolver or of the installer
NextWorkers ==
    \/ last.op = "none" /\ IconRun
           /\ UNCHANGED <<readVars, launchVars, fsVars, guiVars>>
    \/ last.op = "none" /\ ~ixOut.done /\ InstallWorker(WorkerRequests, InstallFails)
           /\ UNCHANGED <<iconVars, readVars, launchVars, guiVars>>
    \/ InstallationComplete /\ UNCHANGED <<iconVars, readVars, launchVars, guiVars>>
    \/ ShowError /\ UNCHANGED <<iconVars, readVars, launchVars, guiVars>>

SpecWorkers == InitWorkers /\ [][NextWorkers]_vars

\* s is made of the first elements of t
IsPrefix(s, t) == Len(s) <= Len(t) /\ s = SubSeq(t, 1, Len(s))

\* the value occurs in the sequence
Emitted(value, s) == \E k \in 1..Len(s) : s[k] = value

\* C17: a run of the resolver or of the installer ends with exactly one
\* terminal notification, finished or error; its progress values are the
\* first ones of 20, 50, 80, 100 (resolver) or of 20, 50, 100 (installer), and
\* 100 is emitted if and only if the run ends with finished.
C17_OneTerminalNotification ==
    /\ ixOut.done =>
           /\ Len(ixOut.finished) + Len(ixOut.errors) = 1
           /\ IsPrefix(ixOut.progress, <<20, 50, 80, 100>>)
           /\ Emitted(100, ixOut.progress) <=> ixOut.finished # <<>>
    /\ last.op = "install" =>
           /\ last.run.finished + last.run.errors = 1
           /\ IsPrefix(last.run.progress, <<20, 50, 100>>)
           /\ Emitted(100, last.run.progress) <=> last.run.finished = 1

\* a resolver run that ends with finished after all four milestones
C17_Witness ==
    /\ ixOut.done
    /\ ixOut.finished # <<>> /\ ixOut.errors = <<>>
    /\ ixOut.progress = <<20, 50, 80, 100>>

====
